---- MODULE Spec2Model ----
(***************************************************************************)
(* A model of src/QMK/parsing.ts: the KEYMAP(...) parser                   *)
(* (tryParseKeymapsText), the single-key editor (trySetKeymapsKey) and the *)
(* layer appender (addLayerKeymaps).                                       *)
(*                                                                         *)
(* A text is a sequence of one-character strings.  Indices into a text are *)
(* 0-based, as in the source; At and Slice convert.                        *)
(***************************************************************************)
EXTENDS Integers, Sequences, FiniteSets, TLC

NL == "\n"
BS == "\\"
\* What expr[i] yields past the end of the string; it equals no character.
UNDEF == "undefined"
\* keyCount's default value, null.
Null == -1

Min(a, b) == IF a <= b THEN a ELSE b
Max(a, b) == IF a >= b THEN a ELSE b

\* expr[i]
At(s, i) == IF i >= 0 /\ i < Len(s) THEN s[i + 1] ELSE UNDEF

\* s.slice(a, b): both ends clamped to the string, empty when a >= b.
Slice(s, a, b) ==
    LET lo == Min(Max(a, 0), Len(s))
        hi == Min(Max(b, 0), Len(s))
    IN  IF lo >= hi THEN <<>> ELSE SubSeq(s, lo + 1, hi)

\* s.substr(a) and s.substr(0, n)
SubstrFrom(s, a) == Slice(s, a, Len(s))
SubstrTo(s, n) == Slice(s, 0, n)

\* The literal "KEYMAP(" that opens an invocation.
MARKER == <<"K", "E", "Y", "M", "A", "P", "(">>

\* expr.indexOf(m, from): the first index >= from where m occurs, or -1.
indexOf(s, m, from) ==
    LET c == {i \in Max(from, 0)..(Len(s) - Len(m)) :
                \A j \in 1..Len(m) : s[i + j] = m[j]}
    IN  IF c = {} THEN -1 ELSE CHOOSE i \in c : \A j \in c : i <= j

\* The characters the regular expression \s matches.
WhiteSpace == {" ", "\n", "\t", "\r"}

HasSpace(s) == \E i \in 1..Len(s) : s[i] \in WhiteSpace

\* The length of the match of /^\s+/ (0 when there is none).
LeadingSpaces(s) ==
    IF \A i \in 1..Len(s) : s[i] \in WhiteSpace THEN Len(s)
    ELSE (CHOOSE i \in 1..Len(s) :
            s[i] \notin WhiteSpace /\ \A j \in 1..(i - 1) : s[j] \in WhiteSpace) - 1

\* The length of the match of /\s+$/ (0 when there is none).
TrailingSpaces(s) ==
    IF \A i \in 1..Len(s) : s[i] \in WhiteSpace THEN Len(s)
    ELSE Len(s) - (CHOOSE i \in 1..Len(s) :
            s[i] \notin WhiteSpace /\ \A j \in (i + 1)..Len(s) : s[j] \in WhiteSpace)

\* [start, s.slice(start, end)]
tokenWithoutSpaces(s) ==
    LET start == LeadingSpaces(s)
        end == Len(s) - TrailingSpaces(s)
    IN  <<start, Slice(s, start, end)>>

(***************************************************************************)
(* Syntax nodes.  One record shape serves both AstWord and AstFunction; a  *)
(* word has no func and no params.  close is not a field of the source: it *)
(* records pos at the moment the node was pushed, which for a function is  *)
(* the index just past the parenthesis that closed it.                     *)
(***************************************************************************)
AstWord(content, offset, end) ==
    [type |-> "word", content |-> content, offset |-> offset, end |-> end,
     func |-> <<>>, params |-> <<>>, close |-> end]

AstFunction(func, params, offset, end, content, close) ==
    [type |-> "func", content |-> content, offset |-> offset, end |-> end,
     func |-> func, params |-> params, close |-> close]

(***************************************************************************)
(* The parser's state.  frames is the stack of activations of main(): each *)
(* holds that activation's start, arr and lastToken; an activation that is *)
(* suspended inside addFunc (waiting for main(end + 1)) also holds the     *)
(* function's name (token) and its offset (start + offset).                *)
(***************************************************************************)
Frame(start) ==
    [start |-> start, arr |-> <<>>, lastToken |-> -1, token |-> <<>>, foffset |-> 0]

NoError == <<"", 0>>

InitState ==
    [pos |-> 0, pcount |-> 0, frames |-> <<>>, keymaps |-> <<>>,
     status |-> "scan", err |-> NoError]

Top(st) == st.frames[Len(st.frames)]
SetTop(st, f) == [st EXCEPT !.frames[Len(st.frames)] = f]

\* throw new Error(...): the kind of error and the position its message carries.
Throw(st, kind, at) == [st EXCEPT !.status = "error", !.err = <<kind, at>>]

Failed(st) == st.status = "error"

\* Every step below passes a state in which an error was thrown on unchanged:
\* the exception leaves main and tryParseKeymapsText at once.

ensureTokenExists(st) ==
    IF Failed(st) THEN st
    ELSE IF Top(st).lastToken = Len(Top(st).arr) \/ Len(Top(st).arr) = 0
    THEN Throw(st, "MissingToken", st.pos)
    ELSE SetTop(st, [Top(st) EXCEPT !.lastToken = Len(Top(st).arr)])

\* addWord that records the span's start as the offset, leading whitespace
\* not counted.
addWordUntrimmedOffset(expr, st, end) ==
    LET f == Top(st)
        tw == tokenWithoutSpaces(Slice(expr, f.start, end))
        token == tw[2]
    IN  IF Failed(st) THEN st
        ELSE IF end <= f.start THEN st
        ELSE IF token = <<>> THEN st
        ELSE IF HasSpace(token)
             THEN Throw(st, "UnexpectedWhitespace", f.start)
        ELSE SetTop(st, [f EXCEPT !.arr = Append(@, AstWord(token, f.start, end))])

addWord(expr, st, end) ==
    LET f == Top(st)
        tw == tokenWithoutSpaces(Slice(expr, f.start, end))
        offset == tw[1]
        token == tw[2]
    IN  IF Failed(st) THEN st
        ELSE IF end <= f.start THEN st
        ELSE IF token = <<>> THEN st
        ELSE IF HasSpace(token)
             THEN Throw(st, "UnexpectedWhitespace", f.start + offset)
        ELSE SetTop(st, [f EXCEPT !.arr = Append(@, AstWord(token, f.start + offset, end))])

\* addFunc up to its call main(end + 1): the name is checked and a new
\* activation of main starts just past the opening parenthesis.
addFunc(expr, st, end) ==
    LET f == Top(st)
        tw == tokenWithoutSpaces(Slice(expr, f.start, end))
        offset == tw[1]
        token == tw[2]
    IN  IF end <= f.start THEN Throw(st, "MissingFunctionName", end)
        ELSE IF token = <<>> THEN Throw(st, "MissingFunctionName", f.start + offset)
        ELSE IF HasSpace(token)
             THEN Throw(st, "InvalidFunctionName", f.start + offset)
        ELSE [st EXCEPT !.frames =
                Append(SubSeq(st.frames, 1, Len(st.frames) - 1),
                       [f EXCEPT !.token = token, !.foffset = f.start + offset])
                \o <<Frame(end + 1)>>]

\* `return arr` of main.  The outermost activation hands the layer to
\* tryParseKeymapsText (pcount check, keymaps.push); an inner one resumes the
\* caller's addFunc after main(end + 1): the function node is pushed, then
\* pcount++ and start = pos.
returnArr(expr, st) ==
    LET depth == Len(st.frames)
        params == Top(st).arr
    IN  IF Failed(st) THEN st
        ELSE IF depth = 1
        THEN IF st.pcount # 0
             THEN Throw(st, "UnbalancedParentheses", st.pos)
             ELSE [st EXCEPT !.keymaps = Append(@, params), !.frames = <<>>,
                             !.status = "scan"]
        ELSE IF params = <<>>
             THEN Throw(st, "TypeError", st.pos)
        ELSE LET caller == st.frames[depth - 1]
                 paramsend == params[Len(params)].end
                 node == AstFunction(caller.token, params, caller.foffset,
                                     paramsend + 1,
                                     Slice(expr, caller.foffset, paramsend + 1),
                                     st.pos)
             IN  [st EXCEPT !.frames =
                        Append(SubSeq(st.frames, 1, depth - 2),
                               [caller EXCEPT !.arr = Append(@, node),
                                              !.start = st.pos]),
                     !.pcount = @ + 1]

\* pos += n; start = pos
skipAndRestart(st, n) ==
    IF Failed(st) THEN st
    ELSE SetTop([st EXCEPT !.pos = st.pos + n], [Top(st) EXCEPT !.start = st.pos + n])

\* The inner loop of case "/*".
RECURSIVE blockComment(_, _)
blockComment(expr, st) ==
    IF Failed(st) THEN st
    ELSE IF st.pos < Len(expr)
    THEN IF At(expr, st.pos) = "*" /\ At(expr, st.pos + 1) = "/"
         THEN skipAndRestart(st, 2)
         ELSE blockComment(expr, [st EXCEPT !.pos = @ + 1])
    ELSE st

\* The inner loop of case "//".
RECURSIVE lineComment(_, _)
lineComment(expr, st) ==
    IF Failed(st) THEN st
    ELSE IF st.pos < Len(expr)
    THEN IF At(expr, st.pos) = NL
         THEN skipAndRestart(st, 2)
         ELSE lineComment(expr, [st EXCEPT !.pos = @ + 1])
    ELSE st

\* switch (char + next), entered with pos already past char.
escapes(expr, st, char, next) ==
    IF char = BS /\ next = NL THEN skipAndRestart(st, 1)
    ELSE IF char = "/" /\ next = "*"
         THEN blockComment(expr, addWord(expr, st, st.pos - 1))
    ELSE IF char = "/" /\ next = "/"
         THEN lineComment(expr, addWord(expr, st, st.pos - 1))
    ELSE st

\* pcount--
closeParenthesis(st) == IF Failed(st) THEN st ELSE [st EXCEPT !.pcount = @ - 1]

\* switch (char)
delimiters(expr, st, char) ==
    IF Failed(st) THEN st
    ELSE IF char = ","
    THEN skipAndRestart(ensureTokenExists(addWord(expr, st, st.pos - 1)), 0)
    ELSE IF char = "("
    THEN addFunc(expr, st, st.pos - 1)
    ELSE IF char = ")"
    THEN returnArr(expr,
            closeParenthesis(ensureTokenExists(addWord(expr, st, st.pos - 1))))
    ELSE st

\* One iteration of main's while loop, or its final `return arr`.
main(expr, st) ==
    IF st.pos < Len(expr)
    THEN delimiters(expr,
                    escapes(expr, [st EXCEPT !.pos = @ + 1],
                            At(expr, st.pos), At(expr, st.pos + 1)),
                    At(expr, st.pos))
    ELSE returnArr(expr, st)

\* scan without the comparison of the layers' lengths.
scanWithoutSizeCheck(expr, keyCount, st) ==
    LET i == indexOf(expr, MARKER, st.pos)
        keymaps == st.keymaps
    IN  IF i # -1
        THEN [st EXCEPT !.pos = i + 7, !.pcount = 1,
                        !.frames = <<Frame(i + 7)>>, !.status = "main"]
        ELSE IF Len(keymaps) >= 1
        THEN IF keyCount # Null /\ Len(keymaps[1]) # keyCount
             THEN Throw(st, "UnexpectedKeyCount", Len(keymaps[1]))
             ELSE [st EXCEPT !.status = "ok"]
        ELSE Throw(st, "NoInvocationsFound", 0)

\* One test of the outer while loop of tryParseKeymapsText: either the next
\* invocation starts, or the scan is over and the layers are checked.
scan(expr, keyCount, st) ==
    LET i == indexOf(expr, MARKER, st.pos)
        keymaps == st.keymaps
    IN  IF i # -1
        THEN [st EXCEPT !.pos = i + 7, !.pcount = 1,
                        !.frames = <<Frame(i + 7)>>, !.status = "main"]
        ELSE IF Len(keymaps) >= 1
        THEN IF \E t \in 1..Len(keymaps) : Len(keymaps[t]) # Len(keymaps[1])
             THEN Throw(st, "InconsistentLayerSize", 0)
             ELSE IF keyCount # Null /\ Len(keymaps[1]) # keyCount
             THEN Throw(st, "UnexpectedKeyCount", Len(keymaps[1]))
             ELSE [st EXCEPT !.status = "ok"]
        ELSE Throw(st, "NoInvocationsFound", 0)

Step(expr, keyCount, st) ==
    IF st.status = "scan" THEN scan(expr, keyCount, st) ELSE main(expr, st)

RECURSIVE Run(_, _, _)
Run(expr, keyCount, st) ==
    IF st.status \in {"ok", "error"} THEN st
    ELSE Run(expr, keyCount, Step(expr, keyCount, st))

\* The outcome of tryParseKeymapsText(expr, keyCount, true): status is "ok" or
\* "error", keymaps the layers, pos the _endParsingPosition, err the error.
tryParseKeymapsText(expr, keyCount) == Run(expr, keyCount, InitState)

\* The span of keyValue replaced by newValue: head + newValue + tail.
splice(keymapText, keyValue, newValue) ==
    SubstrTo(keymapText, keyValue.offset)
        \o newValue
        \o SubstrFrom(keymapText, keyValue.offset + Len(keyValue.content))

\* What a call hands back: a thrown error, or a returned value.
Thrown(err) == [threw |-> TRUE, err |-> err, text |-> <<>>, keymaps |-> <<>>]
Returned(text) == [threw |-> FALSE, err |-> NoError, text |-> text, keymaps |-> <<>>]

\* layerKeys[key] is defined.
HasKey(keymapParsed, layer, key) ==
    /\ layer >= 0
    /\ layer < Len(keymapParsed.keymaps)
    /\ key >= 0
    /\ key < Len(keymapParsed.keymaps[layer + 1])

\* tryParseKeymapsText(newKeymap, keyCount); return newKeymap
validated(newKeymap, check) ==
    IF Failed(check) THEN Thrown(check.err) ELSE Returned(newKeymap)

\* trySetKeymapsKey after its first parse.
setKeyIn(keymapParsed, keymapText, layer, key, newValue, keyCount) ==
    IF Failed(keymapParsed) THEN Thrown(keymapParsed.err)
    ELSE IF ~HasKey(keymapParsed, layer, key) THEN Returned(keymapText)
    ELSE validated(splice(keymapText, keymapParsed.keymaps[layer + 1][key + 1], newValue),
                   tryParseKeymapsText(
                       splice(keymapText, keymapParsed.keymaps[layer + 1][key + 1], newValue),
                       keyCount))

\* trySetKeymapsKey without the parse of the new text.
trySetKeymapsKeyUnvalidated(keymapText, layer, key, newValue, keyCount) ==
    LET keymapParsed == tryParseKeymapsText(keymapText, keyCount)
    IN  IF Failed(keymapParsed) THEN Thrown(keymapParsed.err)
        ELSE IF ~HasKey(keymapParsed, layer, key) THEN Returned(keymapText)
        ELSE Returned(splice(keymapText, keymapParsed.keymaps[layer + 1][key + 1], newValue))

trySetKeymapsKey(keymapText, layer, key, newValue, keyCount) ==
    setKeyIn(tryParseKeymapsText(keymapText, keyCount),
             keymapText, layer, key, newValue, keyCount)

\* The placeholder of a key with no mapping.
KC_TRANSPARENT ==
    <<"K", "C", "_", "T", "R", "A", "N", "S", "P", "A", "R", "E", "N", "T">>

DigitChar == <<"0", "1", "2", "3", "4", "5", "6", "7", "8", "9">>

\* The decimal digits of n, as string concatenation with a number yields them.
RECURSIVE NumberToString(_)
NumberToString(n) ==
    IF n < 10 THEN <<DigitChar[n + 1]>>
    ELSE NumberToString(n \div 10) \o <<DigitChar[(n % 10) + 1]>>

\* empties.join(",")
RECURSIVE join(_, _)
join(strs, sep) ==
    IF strs = <<>> THEN <<>>
    ELSE IF Len(strs) = 1 THEN strs[1]
    ELSE strs[1] \o sep \o join(Tail(strs), sep)

\* The text with a layer n of `keys` placeholders inserted at pos.
withLayer(keymapText, pos, n, keys) ==
    SubstrTo(keymapText, pos)
        \o <<",", NL, " ", "[">>
        \o NumberToString(n)
        \o <<"]", " ", "=", " ">> \o MARKER
        \o join([t \in 1..keys |-> KC_TRANSPARENT], <<",">>)
        \o <<")">>
        \o SubstrFrom(keymapText, pos)

\* addLayerKeymaps with one placeholder per layer instead of one per key.
addLayerInPerLayer(keymaps, keymapText) ==
    IF Failed(keymaps) THEN keymapText
    ELSE withLayer(keymapText, keymaps.pos, Len(keymaps.keymaps),
                   Len(keymaps.keymaps))

\* addLayerKeymaps after its parse.
addLayerIn(keymaps, keymapText) ==
    IF Failed(keymaps) THEN keymapText
    ELSE withLayer(keymapText, keymaps.pos, Len(keymaps.keymaps),
                   Len(keymaps.keymaps[1]))

addLayerKeymaps(keymapText) ==
    addLayerIn(tryParseKeymapsText(keymapText, Null), keymapText)

(***************************************************************************)
(* The input texts.  A text is a context (what precedes and what follows   *)
(* one argument position) with a fragment in that position; a fragment is  *)
(* any concatenation of a bounded number of pieces.                        *)
(***************************************************************************)
\* The most pieces in a fragment of a text handed to the parser alone.
MaxScanPieces == 3
\* The most pieces in a fragment of a text handed to the editors.
MaxEditPieces == 2
\* The largest layer index and the largest key index asked of trySetKeymapsKey.
MaxLayer == 1
MaxKey == 1

\* A word, the delimiters, a space, a block comment, the opening of a line
\* comment, a newline, a line continuation.
Pieces ==
    { <<"A">>, <<",">>, <<"(">>, <<")">>, <<" ">>, <<"/", "*", "*", "/">>,
      <<"/", "/">>, <<NL>>, <<BS, NL>> }

\* <<before, after>>: the only argument of an invocation; the only parameter
\* of a call; the middle one of three arguments; the second argument of the
\* first of two invocations; a text with no invocation at all.
Contexts ==
    { <<MARKER, <<")">> >>,
      <<MARKER \o <<"F", "(">>, <<")", ")">> >>,
      <<MARKER \o <<"A", ",">>, <<",", "A", ")">> >>,
      <<MARKER \o <<"A", ",">>, <<")", ",", NL>> \o MARKER \o <<"A", ",", "A", ")">> >>,
      << <<>>, <<>> >> }

RECURSIVE Fragments(_)
Fragments(n) ==
    IF n = 0 THEN { <<>> }
    ELSE LET shorter == Fragments(n - 1)
         IN  shorter \cup { f \o p : f \in shorter, p \in Pieces }

Texts(n) == { c[1] \o f \o c[2] : c \in Contexts, f \in Fragments(n) }

ScanTexts == Texts(MaxScanPieces)
EditTexts == Texts(MaxEditPieces)

KeyCounts == {Null, 1, 2}
NewValues == { <<"X">>, <<>>, <<"X", ",", "Y">>, <<"(">> }

(***************************************************************************)
(* The state machine: a text and an expected key count are given, and one  *)
(* of the three exported functions is applied to them.                     *)
(***************************************************************************)
VARIABLES
    text,       \* expr / keymapText
    keyCount,   \* keyCount
    call,       \* the function applied and its other arguments
    ret         \* what the call handed back

vars == <<text, keyCount, call, ret>>

NoCall == [op |-> "none", layer |-> 0, key |-> 0, newValue |-> <<>>]
NoRet == Returned(<<>>)

\* What tryParseKeymapsText hands back: the layers, or the error thrown.
Outcome(st) ==
    IF Failed(st) THEN Thrown(st.err)
    ELSE [Returned(<<>>) EXCEPT !.keymaps = st.keymaps]

Init ==
    /\ text \in EditTexts
    /\ keyCount \in KeyCounts
    /\ call = NoCall
    /\ ret = NoRet

InitScan ==
    /\ text \in ScanTexts
    /\ keyCount \in KeyCounts
    /\ call = NoCall
    /\ ret = NoRet

Parse ==
    /\ call.op = "none"
    /\ call' = [NoCall EXCEPT !.op = "parse"]
    /\ ret' = Outcome(tryParseKeymapsText(text, keyCount))
    /\ UNCHANGED <<text, keyCount>>

SetKey(layer, key, newValue) ==
    /\ call.op = "none"
    /\ call' = [op |-> "setKey", layer |-> layer, key |-> key, newValue |-> newValue]
    /\ ret' = trySetKeymapsKey(text, layer, key, newValue, keyCount)
    /\ UNCHANGED <<text, keyCount>>

AddLayer ==
    /\ call.op = "none"
    /\ call' = [NoCall EXCEPT !.op = "addLayer"]
    /\ ret' = Returned(addLayerKeymaps(text))
    /\ UNCHANGED <<text, keyCount>>

Next ==
    \/ Parse
    \/ \E layer \in 0..MaxLayer, key \in 0..MaxKey, newValue \in NewValues :
          SetKey(layer, key, newValue)
    \/ AddLayer

Spec == Init /\ [][Next]_vars

\* The parser alone, over the larger set of texts.
SpecScan == InitScan /\ [][Parse]_vars

(***************************************************************************)
(* What the properties below read off a parse.                             *)
(***************************************************************************)
\* The contents of the keys of a layer, in order.
Contents(layer) == [i \in 1..Len(layer) |-> layer[i].content]

Parsed(t, kc) == tryParseKeymapsText(t, kc)

\* The key a call of trySetKeymapsKey is about exists in the parse p.
InRange(p, layer, key) ==
    /\ ~Failed(p)
    /\ layer < Len(p.keymaps)
    /\ key < Len(p.keymaps[layer + 1])

(***************************************************************************)
(* C2: setKey never returns syntactically broken text.  A text that        *)
(* trySetKeymapsKey returns parses under the same expected key count; and  *)
(* when the text with the key's span replaced does not parse,              *)
(* trySetKeymapsKey throws the error of that parse and returns nothing.    *)
(***************************************************************************)
C2_SetKeyReturnsValidText ==
    call.op = "setKey" =>
        /\ ~ret.threw => ~Failed(Parsed(ret.text, keyCount))
        /\ LET p == Parsed(text, keyCount)
           IN  InRange(p, call.layer, call.key) =>
                 LET target == p.keymaps[call.layer + 1][call.key + 1]
                     check == Parsed(splice(text, target, call.newValue), keyCount)
                 IN  Failed(check) => ret.threw /\ ret.err = check.err

\* A key was replaced and the new text returned.
C2_Witness ==
    /\ call.op = "setKey"
    /\ ~ret.threw
    /\ ret.text # text
    /\ InRange(Parsed(text, keyCount), call.layer, call.key)

(***************************************************************************)
(* C3: when the text parses to n layers of k keys, the text                *)
(* addLayerKeymaps returns parses to n + 1 layers of k keys; the first n   *)
(* have the contents they had, and the last is k words KC_TRANSPARENT.     *)
(***************************************************************************)
C3_AppendedLayerParses ==
    call.op = "addLayer" =>
        LET before == Parsed(text, Null)
            after == Parsed(ret.text, Null)
            n == Len(before.keymaps)
            k == Len(before.keymaps[1])
        IN  ~Failed(before) =>
              /\ ~Failed(after)
              /\ Len(after.keymaps) = n + 1
              /\ \A l \in 1..(n + 1) : Len(after.keymaps[l]) = k
              /\ \A l \in 1..n : Contents(after.keymaps[l]) = Contents(before.keymaps[l])
              /\ \A i \in 1..k :
                    /\ after.keymaps[n + 1][i].type = "word"
                    /\ after.keymaps[n + 1][i].content = KC_TRANSPARENT

\* A layer was appended to a text of two layers of two keys.
C3_Witness ==
    /\ call.op = "addLayer"
    /\ LET before == Parsed(text, Null)
       IN  /\ ~Failed(before)
           /\ Len(before.keymaps) = 2
           /\ Len(before.keymaps[1]) = 2
    /\ ret.text # text

(***************************************************************************)
(* C6: layer-size consistency.  A parse that returns has at least one      *)
(* layer, all its layers have the same non-zero length, and that length is *)
(* the expected key count when one is given; a text with no invocation     *)
(* does not parse.                                                         *)
(***************************************************************************)
C6_LayerSizeConsistency ==
    call.op = "parse" =>
        /\ ~ret.threw =>
              /\ Len(ret.keymaps) >= 1
              /\ Len(ret.keymaps[1]) > 0
              /\ \A l \in 1..Len(ret.keymaps) : Len(ret.keymaps[l]) = Len(ret.keymaps[1])
              /\ keyCount # Null => Len(ret.keymaps[1]) = keyCount
        /\ indexOf(text, MARKER, 0) = -1 => ret.threw
        /\ ret.threw => ret.keymaps = <<>>

\* Two invocations with the expected number of keys were parsed.
C6_Witness ==
    /\ call.op = "parse"
    /\ ~ret.threw
    /\ Len(ret.keymaps) = 2
    /\ keyCount = Len(ret.keymaps[1])

(***************************************************************************)
(* The text as the specification reads it, independently of the parser:    *)
(* the delimiters and word characters of the first invocation, with        *)
(* whitespace, comments (a block comment through its closing mark, a line  *)
(* comment through its newline) and line continuations left out.           *)
(***************************************************************************)
IsWordChar(c) == c \notin (WhiteSpace \cup {",", "(", ")", "/", "*", BS, UNDEF})

PlainWord(v) == v # <<>> /\ \A i \in 1..Len(v) : IsWordChar(v[i])

\* The index just past the first occurrence of m at or after from; the end
\* of the text when there is none.
EndOf(t, m, from) ==
    IF indexOf(t, m, from) = -1 THEN Len(t) ELSE indexOf(t, m, from) + Len(m)

RECURSIVE Reading(_, _, _)
Reading(t, i, depth) ==
    IF i >= Len(t) \/ depth = 0 THEN <<>>
    ELSE IF At(t, i) = BS /\ At(t, i + 1) = NL THEN Reading(t, i + 2, depth)
    ELSE IF At(t, i) = "/" /\ At(t, i + 1) = "*"
         THEN Reading(t, EndOf(t, <<"*", "/">>, i + 2), depth)
    ELSE IF At(t, i) = "/" /\ At(t, i + 1) = "/"
         THEN Reading(t, EndOf(t, <<NL>>, i + 2), depth)
    ELSE IF At(t, i) \in WhiteSpace THEN Reading(t, i + 1, depth)
    ELSE IF At(t, i) = "("
         THEN <<[tok |-> "(", depth |-> depth + 1]>> \o Reading(t, i + 1, depth + 1)
    ELSE IF At(t, i) = ")"
         THEN <<[tok |-> ")", depth |-> depth]>> \o Reading(t, i + 1, depth - 1)
    ELSE IF At(t, i) = ","
         THEN <<[tok |-> ",", depth |-> depth]>> \o Reading(t, i + 1, depth)
    ELSE <<[tok |-> "w", depth |-> depth]>> \o Reading(t, i + 1, depth)

\* The reading of the first invocation, its opening parenthesis included.
FirstInvocation(t) ==
    IF indexOf(t, MARKER, 0) = -1 THEN <<>>
    ELSE <<[tok |-> "(", depth |-> 1]>> \o Reading(t, indexOf(t, MARKER, 0) + 7, 1)

\* A slot with no token: a delimiter that opens a slot directly followed by
\* one that closes it.
EmptySlotIn(r) ==
    \E i \in 1..(Len(r) - 1) : r[i].tok \in {"(", ","} /\ r[i + 1].tok \in {",", ")"}

HasEmptySlot(t) == EmptySlotIn(FirstInvocation(t))

Count(r, toks, depths) ==
    Cardinality({i \in 1..Len(r) : r[i].tok \in toks /\ r[i].depth \in depths})

\* The nodes of a list of nodes, at any depth.
RECURSIVE CountNodes(_)
CountNodes(nodes) ==
    IF nodes = <<>> THEN 0
    ELSE 1 + CountNodes(nodes[1].params) + CountNodes(Tail(nodes))

RECURSIVE FuncNodes(_)
FuncNodes(nodes) ==
    IF nodes = <<>> THEN {}
    ELSE (IF nodes[1].type = "func" THEN {nodes[1]} ELSE {})
            \cup FuncNodes(nodes[1].params) \cup FuncNodes(Tail(nodes))

\* Kinds and names of a list of nodes and the contents of its words,
\* positions left out (the content of a call is a span of the text, which
\* its parameters determine up to spacing).
RECURSIVE ShapeOf(_)
ShapeOf(nodes) ==
    [i \in 1..Len(nodes) |->
        [type |-> nodes[i].type, name |-> nodes[i].func,
         content |-> IF nodes[i].type = "word" THEN nodes[i].content ELSE <<>>,
         params |-> ShapeOf(nodes[i].params)]]

ResultOf(p) ==
    IF Failed(p) THEN <<"fails">>
    ELSE <<"parses", [l \in 1..Len(p.keymaps) |-> ShapeOf(p.keymaps[l])]>>

(***************************************************************************)
(* C4, as stated: a single invocation of k comma-separated plain words     *)
(* parses to one layer of k words, and each word's content is the text     *)
(* from its offset up to its end.                                          *)
(***************************************************************************)
\* The text is one invocation whose arguments are plain words with
\* whitespace around them, followed by anything but a second invocation.
PlainArguments(t) ==
    LET close == indexOf(t, <<")">>, 0)
        cuts == {6, close} \cup {i \in 7..(close - 1) : At(t, i) = ","}
    IN  /\ indexOf(t, MARKER, 0) = 0
        /\ indexOf(t, MARKER, 1) = -1
        /\ close # -1
        /\ \A i \in 7..(close - 1) :
              IsWordChar(At(t, i)) \/ At(t, i) \in WhiteSpace \/ At(t, i) = ","
        /\ \A a \in cuts \ {close} :
              LET b == CHOOSE c \in cuts : c > a /\ \A d \in cuts : d > a => c <= d
              IN  /\ \E i \in (a + 1)..(b - 1) : IsWordChar(At(t, i))
                  /\ \A i, j, k \in (a + 1)..(b - 1) :
                        (i < j /\ j < k /\ IsWordChar(At(t, i)) /\ IsWordChar(At(t, k)))
                            => IsWordChar(At(t, j))

ArgumentCount(t) ==
    1 + Cardinality({i \in 7..(indexOf(t, <<")">>, 0) - 1) : At(t, i) = ","})

C4_Case ==
    /\ call.op = "parse"
    /\ PlainArguments(text)
    /\ keyCount \in {Null, ArgumentCount(text)}

C4_ContentIsSpan ==
    C4_Case =>
        /\ ~ret.threw
        /\ Len(ret.keymaps) = 1
        /\ Len(ret.keymaps[1]) = ArgumentCount(text)
        /\ \A i \in 1..Len(ret.keymaps[1]) :
              LET node == ret.keymaps[1][i]
              IN  /\ node.type = "word"
                  /\ node.content = Slice(text, node.offset, node.end)

(***************************************************************************)
(* C4, amended: a single invocation of k comma-separated plain words       *)
(* parses to one layer of k words; each word's content is the text from    *)
(* its offset over the content's length, and the text from there up to its *)
(* end is whitespace only (end is the index of the delimiter that closed   *)
(* the word, so the span from offset to end is the content followed by the *)
(* whitespace before that delimiter).                                      *)
(***************************************************************************)
C4_ContentIsTrimmedSpan ==
    C4_Case =>
        /\ ~ret.threw
        /\ Len(ret.keymaps) = 1
        /\ Len(ret.keymaps[1]) = ArgumentCount(text)
        /\ \A i \in 1..Len(ret.keymaps[1]) :
              LET node == ret.keymaps[1][i]
              IN  /\ node.type = "word"
                  /\ node.content # <<>>
                  /\ node.content
                        = Slice(text, node.offset, node.offset + Len(node.content))
                  /\ \A j \in (node.offset + Len(node.content))..(node.end - 1) :
                        At(text, j) \in WhiteSpace
                  /\ At(text, node.end) \in {",", ")"}

\* Three plain words were parsed, one with whitespace on both sides.
C4_Witness ==
    /\ C4_Case
    /\ ~ret.threw
    /\ Len(ret.keymaps[1]) = 3
    /\ \E i \in 1..3 :
          LET node == ret.keymaps[1][i]
          IN  /\ node.end > node.offset + Len(node.content)
              /\ At(text, node.offset - 1) \in WhiteSpace

(***************************************************************************)
(* C5: in a successful parse every call node, at any depth, ends just past *)
(* its own closing parenthesis, and its content is the text from the first *)
(* character of its name through that parenthesis.                         *)
(***************************************************************************)
C5_CallSpan ==
    (call.op = "parse" /\ ~ret.threw) =>
        \A l \in 1..Len(ret.keymaps) :
            \A node \in FuncNodes(ret.keymaps[l]) :
                /\ At(text, node.close - 1) = ")"
                /\ node.end = node.close
                /\ node.content = Slice(text, node.offset, node.close)

(***************************************************************************)
(* C7: no text with an empty argument slot parses (the claim's last        *)
(* clause, which its first clause, failure with MissingToken, implies).    *)
(***************************************************************************)
C7_EmptySlotRejected ==
    (call.op = "parse" /\ HasEmptySlot(text)) => ret.threw

(***************************************************************************)
(* C8: a line comment consumes the text from its two slashes through the   *)
(* next newline inclusive.  At every step of the parser that opens a line  *)
(* comment whose newline is in the text, the step ends with the position   *)
(* and the start of the pending span at the character immediately after    *)
(* that newline.                                                           *)
(***************************************************************************)
\* The states of the parser before each of its steps, the final one last.
RECURSIVE Steps(_, _, _)
Steps(expr, kc, st) ==
    IF st.status \in {"ok", "error"} THEN <<st>>
    ELSE <<st>> \o Steps(expr, kc, Step(expr, kc, st))

OpensLineComment(t, st) ==
    /\ st.status = "main"
    /\ At(t, st.pos) = "/"
    /\ At(t, st.pos + 1) = "/"
    /\ indexOf(t, <<NL>>, st.pos + 2) # -1

C8_LineCommentEndsAfterNewline ==
    (call.op = "parse") =>
        LET steps == Steps(text, keyCount, InitState)
        IN  \A i \in 1..(Len(steps) - 1) :
                (OpensLineComment(text, steps[i]) /\ ~Failed(steps[i + 1])) =>
                    /\ steps[i + 1].pos = indexOf(text, <<NL>>, steps[i].pos + 2) + 1
                    /\ Top(steps[i + 1]).start = steps[i + 1].pos

(***************************************************************************)
(* C9: deleting every backslash-newline pair that lies inside the argument *)
(* list of an invocation does not change the outcome of the parse: both    *)
(* texts fail, or both parse to the same layers with the same kinds, names *)
(* and word contents.  Checked for texts without comments, whose           *)
(* backslash-newline pairs all lie between the opening and the first       *)
(* closing parenthesis of the first invocation.                            *)
(***************************************************************************)
RECURSIVE Elide(_)
Elide(t) ==
    IF t = <<>> THEN <<>>
    ELSE IF Len(t) >= 2 /\ t[1] = BS /\ t[2] = NL THEN Elide(SubSeq(t, 3, Len(t)))
    ELSE <<t[1]>> \o Elide(Tail(t))

ContinuationsInArguments(t) ==
    /\ indexOf(t, MARKER, 0) = 0
    /\ indexOf(t, <<"/">>, 0) = -1
    /\ indexOf(t, <<BS, NL>>, 0) # -1
    /\ \A i \in 0..(Len(t) - 1) :
          (At(t, i) = BS /\ At(t, i + 1) = NL) =>
              /\ i >= 7
              /\ indexOf(t, <<")">>, 0) = -1 \/ i < indexOf(t, <<")">>, 0)

C9_ContinuationElision ==
    (call.op = "parse" /\ ContinuationsInArguments(text)) =>
        ResultOf(Parsed(text, keyCount)) = ResultOf(Parsed(Elide(text), keyCount))

(***************************************************************************)
(* C10: every comma-delimited slot produces exactly one node.  In a        *)
(* successful parse of a text without line comments, the first layer has   *)
(* one node more than its invocation has top-level commas outside          *)
(* comments, and, nested lists included, as many nodes as the invocation   *)
(* has slots (one per opening parenthesis and one per comma).              *)
(***************************************************************************)
C10_OneNodePerSlot ==
    (call.op = "parse" /\ ~ret.threw /\ indexOf(text, <<"/", "/">>, 0) = -1) =>
        LET r == FirstInvocation(text)
        IN  /\ Len(ret.keymaps[1]) = 1 + Count(r, {","}, {1})
            /\ CountNodes(ret.keymaps[1]) = Count(r, {"(", ","}, 1..Len(text))

(***************************************************************************)
(* C1: round trip of setKey, for a new value that is a plain word.  When   *)
(* trySetKeymapsKey returns a text for a key in range of a text that       *)
(* parses, the returned text parses to the same number of layers and keys, *)
(* the key's content is the new value, and the content of every other key  *)
(* is the one it had in the parse of the original text.                    *)
(***************************************************************************)
C1_SetKeyRoundTrip ==
    (/\ call.op = "setKey"
     /\ PlainWord(call.newValue)
     /\ InRange(Parsed(text, keyCount), call.layer, call.key)
     /\ ~ret.threw) =>
        /\ ~Failed(Parsed(ret.text, keyCount))
        /\ Len(Parsed(ret.text, keyCount).keymaps) = Len(Parsed(text, keyCount).keymaps)
        /\ \A l \in 1..Len(Parsed(text, keyCount).keymaps) :
              /\ Len(Parsed(ret.text, keyCount).keymaps[l])
                    = Len(Parsed(text, keyCount).keymaps[l])
              /\ \A i \in 1..Len(Parsed(text, keyCount).keymaps[l]) :
                    Parsed(ret.text, keyCount).keymaps[l][i].content
                        = IF l = call.layer + 1 /\ i = call.key + 1
                          THEN call.newValue
                          ELSE Parsed(text, keyCount).keymaps[l][i].content

====
